---- MODULE Spec2Model ----
(***************************************************************************)
(* Monkey CLI (src/monkey.py): the deterministic password derivation       *)
(* generate_monkey_password and the command-line driver main.              *)
(*                                                                         *)
(* Strings are sequences of one-character strings.  The SHA-256 digest of  *)
(* a combined input is an unknown but fixed string of HashLen hex digits:  *)
(* a digit is chosen when a call reads it, and calls that hash the same    *)
(* combined input read the same digit at the same keystream index.         *)
(***************************************************************************)
EXTENDS Integers, Sequences, FiniteSets, TLC

\* ------------------------------------------------------------------ bounds
MaxLen == 2
MainMaxLen == 1
MaxCount == 2
LongLen == 34

\* The hex digits a digest is drawn from in the model (a sample of 0..15).
HexDigits == {0, 1, 2, 3}

\* ------------------------------------------------------- program constants
HashLen == 64

SYMBOLS_DEFAULT ==
    << "!", "@", "#", "$", "%", "^", "&", "*", "(", ")", "_", "-", "+", "=",
       "[", "]", "{", "}", "|", ";", ":", ",", ".", "<", ">", "?", "/" >>

LOWERCASE_BASE ==
    << "a", "b", "c", "d", "e", "f", "g", "h", "i", "j", "k", "l", "m",
       "n", "o", "p", "q", "r", "s", "t", "u", "v", "w", "x", "y", "z" >>

UPPERCASE_BASE ==
    << "A", "B", "C", "D", "E", "F", "G", "H", "I", "J", "K", "L", "M",
       "N", "O", "P", "Q", "R", "S", "T", "U", "V", "W", "X", "Y", "Z" >>

NUMBERS_BASE == << "0", "1", "2", "3", "4", "5", "6", "7", "8", "9" >>

\* Python's None (for an optional string argument).
None == << "None" >>

\* ------------------------------------------------------------ Python helpers
Range(s) == { s[n] : n \in 1..Len(s) }

Min(a, b) == IF a <= b THEN a ELSE b

\* Truth value of an optional string: None and "" are both false.
Truthy(s) == s # None /\ s # << >>

\* str.isupper / str.islower / str.isdigit on one character of the model's
\* character universe (ASCII).
IsUpper(ch) == ch \in Range(UPPERCASE_BASE)

IsLower(ch) == ch \in Range(LOWERCASE_BASE)

IsDigit(ch) == ch \in Range(NUMBERS_BASE)

\* "".join(chars): the concatenation of the list's strings; an element that
\* is still '' contributes nothing.
Join(chars) == SelectSeq(chars, LAMBDA x : x # "")

\* [''] * n
EmptyChars(n) == [ k \in 1..n |-> "" ]

\* ------------------------------------------------------------------- state
Calls == {1, 2}

VARIABLES
    frame,      \* frame[c]: parameters and locals of call c of generate_monkey_password
    main        \* locals of main, its position, console output and exit status

vars == << frame, main >>

\* The four character classes, in the order the code appends them.  A list of
\* alphabet strings (active_char_sets, categories_to_ensure) is held as the
\* list of the classes whose alphabets it contains.
Classes == << "Upper", "Lower", "Digit", "Symbol" >>

\* The alphabet string of a class, given the resolved symbol string.
CharSet(class, symbols) ==
    CASE class = "Upper" -> UPPERCASE_BASE
      [] class = "Lower" -> LOWERCASE_BASE
      [] class = "Digit" -> NUMBERS_BASE
      [] class = "Symbol" -> symbols

\* A frame that has not been called.  base_hash is << >> while the digest of
\* the call's combined input is not fixed in advance (its digits are chosen as
\* they are read), and the HashLen digits of the digest otherwise.  reads
\* lists the indices of extended_hash the call has read, in order.
IdleFrame ==
    [ pc |-> "idle",
      simple_password |-> << >>, unique_key |-> << >>, desired_length |-> 0,
      include_upper |-> FALSE, include_lower |-> FALSE,
      include_numbers |-> FALSE, include_symbols |-> FALSE,
      custom_symbols_set |-> None, verbose |-> FALSE,
      symbols_to_use |-> << >>, active_char_sets |-> << >>,
      combined_input |-> << >>, base_hash |-> << >>, extended_hash_len |-> 0,
      reads |-> << >>,
      transformed_password_chars |-> << >>,
      hash_read_idx |-> 0, i |-> 0,
      categories_to_ensure |-> << >>, guarantee_hash_idx |-> 0, k |-> 0,
      result |-> << >>, error |-> "", trace |-> << >> ]

\* The frame on entry to generate_monkey_password(...).
NewFrame(p, k, n, up, lo, nu, sy, cs, vb) ==
    [ IdleFrame EXCEPT
        !.pc = "entry",
        !.simple_password = p, !.unique_key = k, !.desired_length = n,
        !.include_upper = up, !.include_lower = lo,
        !.include_numbers = nu, !.include_symbols = sy,
        !.custom_symbols_set = cs, !.verbose = vb ]

Finished(f) == f.pc \in {"returned", "raised"}

\* The index of the next keystream character the call reads.
Cursor(f) == IF f.pc = "pass2" THEN f.guarantee_hash_idx ELSE f.hash_read_idx

\* The call ends with an exception of the given type.
Raise(f, exc) == [ f EXCEPT !.pc = "raised", !.error = exc ]

\* The calls at a program point.  Calls share no state, so an action steps
\* every call that is at its program point.
At(p) == { c \in Calls : frame[c].pc = p }

\* The frames after the calls in DOMAIN new moved to their frames in new.
Stepped(new) == [ c \in Calls |-> IF c \in DOMAIN new THEN new[c] ELSE frame[c] ]

\* ------------------------------------------------ steps 1-3: set-up
\* symbols_to_use = custom_symbols_set if custom_symbols_set else SYMBOLS_DEFAULT
SymbolsToUse(cs) == IF Truthy(cs) THEN cs ELSE SYMBOLS_DEFAULT

\* active_char_sets, in the fixed order Upper, Lower, Digit, Symbol
ActiveCharSets(up, lo, nu, sy, symbols) ==
    (IF up /\ UPPERCASE_BASE # << >> THEN << "Upper" >> ELSE << >>)
    \o (IF lo /\ LOWERCASE_BASE # << >> THEN << "Lower" >> ELSE << >>)
    \o (IF nu /\ NUMBERS_BASE # << >> THEN << "Digit" >> ELSE << >>)
    \o (IF sy /\ symbols # << >> THEN << "Symbol" >> ELSE << >>)

\* A separator between the two secrets (the specification rules it out).
Combined_Separated(p, k) == p \o << "|" >> \o k

\* combined_input = simple_password + str(unique_key)
Combined(p, k) == p \o k

\* min_hash_needed = desired_length * 2 + len(active_char_sets) * 2
MinHashNeeded(n, sets) == n * 2 + Len(sets) * 2

\* A keystream built from min_hash_needed // len(base_hash) copies only.
ExtendedHashLen_NoSpare(needed) == Min(HashLen * (needed \div HashLen), needed + 10)

\* len((base_hash * ((min_hash_needed // len(base_hash)) + 2))[:min_hash_needed + 10])
ExtendedHashLen(needed) == Min(HashLen * ((needed \div HashLen) + 2), needed + 10)

\* The trace lines a verbose call prints after hashing.
HashTrace(vb, combined) ==
    IF vb THEN << << "combined", SubSeq(combined, 1, Min(10, Len(combined))) >>, << "hash" >> >>
    ELSE << >>

SetupBody(f) ==
    LET symbols == SymbolsToUse(f.custom_symbols_set)
        sets == ActiveCharSets(f.include_upper, f.include_lower,
                               f.include_numbers, f.include_symbols, symbols)
        combined == Combined(f.simple_password, f.unique_key)
    IN  IF sets = << >>
        THEN Raise([ f EXCEPT !.symbols_to_use = symbols ], "ValueError")
        ELSE [ f EXCEPT !.pc = IF f.desired_length > 0 THEN "pass1" ELSE "scan",
                        !.symbols_to_use = symbols,
                        !.active_char_sets = sets,
                        !.combined_input = combined,
                        !.extended_hash_len =
                            ExtendedHashLen(MinHashNeeded(f.desired_length, sets)),
                        !.transformed_password_chars = EmptyChars(f.desired_length),
                        !.hash_read_idx = 0,
                        !.i = 0,
                        !.trace = HashTrace(f.verbose, combined) ]

Setup ==
    /\ At("entry") # {}
    /\ frame' = Stepped([ c \in At("entry") |-> SetupBody(frame[c]) ])
    /\ UNCHANGED main

\* ------------------------------------------------ the keystream
\* extended_hash[x] is digit x % HashLen of the digest of the combined input.
\* ks[c] is the pair of digits call c reads in a step: calls that hash the
\* same combined input and stand at the same index read the same digits.
SameStream(c, o) ==
    /\ frame[c].combined_input = frame[o].combined_input
    /\ Cursor(frame[c]) = Cursor(frame[o])

\* A digest whose copies in extended_hash are each rotated by one more digit.
HashDigit_Rotating(base_hash, x) == base_hash[((x + (x \div HashLen)) % HashLen) + 1]

\* extended_hash[x] for a known digest: extended_hash is a prefix of
\* base_hash * n, so its character x is character x % len(base_hash) of base_hash.
HashDigit(base_hash, x) == base_hash[(x % HashLen) + 1]

\* The index of extended_hash a read at cursor x uses: Pass 1 reads
\* extended_hash[hash_read_idx], Pass 2 reads
\* extended_hash[guarantee_hash_idx % len(extended_hash)].
ReadIndex(f, x) == IF f.pc = "pass2" THEN x % f.extended_hash_len ELSE x

\* Reads that take a byte (two hex digits) of the digest as one value.
KnownDigits_Bytes(f) ==
    << 16 * HashDigit(f.base_hash, ReadIndex(f, Cursor(f)))
          + HashDigit(f.base_hash, ReadIndex(f, Cursor(f) + 1)),
       16 * HashDigit(f.base_hash, ReadIndex(f, Cursor(f) + 1))
          + HashDigit(f.base_hash, ReadIndex(f, Cursor(f))) >>

\* The two digits a call with a known digest reads in its next step.
KnownDigits(f) ==
    << HashDigit(f.base_hash, ReadIndex(f, Cursor(f))),
       HashDigit(f.base_hash, ReadIndex(f, Cursor(f) + 1)) >>

Keystreams(cs) ==
    IF \A c \in cs : frame[c].base_hash # << >>
    THEN { [ c \in cs |-> KnownDigits(frame[c]) ] }
    ELSE IF \A c, o \in cs : SameStream(c, o)
    THEN { [ c \in cs |-> d ] : d \in HexDigits \X HexDigits }
    ELSE { ks \in [ cs -> HexDigits \X HexDigits ] :
             \A c, o \in cs : SameStream(c, o) => ks[c] = ks[o] }

\* `extended_hash += base_hash.repeat(2)` is guarded by this test; str has no
\* method repeat, so the growth branch raises AttributeError.
NeedsGrowth(idx, len) == idx + 1 >= len

\* ------------------------------------------------ step 4: Pass 1
\* The character written for a selected set and a selection value, with the
\* fallback for an empty selected set.
PickChar(target, sets, v) ==
    IF target # << >>
    THEN target[(v % Len(target)) + 1]
    ELSE IF \E n \in 1..Len(sets) : sets[n] # << >>
         THEN LET first == CHOOSE n \in 1..Len(sets) :
                              sets[n] # << >> /\ \A m \in 1..(n - 1) : sets[m] = << >>
              IN  sets[first][(v % Len(sets[first])) + 1]
         ELSE "?"

\* One iteration of the Pass 1 loop with keystream digits d1, d2.
Pass1Body(f, d1, d2) ==
    LET x == f.hash_read_idx
        sets == [ n \in 1..Len(f.active_char_sets) |->
                    CharSet(f.active_char_sets[n], f.symbols_to_use) ]
    IN  IF NeedsGrowth(x, f.extended_hash_len)
        THEN Raise(f, "AttributeError")
        ELSE IF NeedsGrowth(x + 1, f.extended_hash_len)
        THEN Raise([ f EXCEPT !.hash_read_idx = x + 1,
                              !.reads = @ \o << ReadIndex(f, x) >> ], "AttributeError")
        ELSE LET target == sets[(d1 % Len(sets)) + 1]
             IN  [ f EXCEPT !.hash_read_idx = x + 2,
                            !.reads = @ \o << ReadIndex(f, x), ReadIndex(f, x + 1) >>,
                            !.transformed_password_chars[f.i + 1] = PickChar(target, sets, d2),
                            !.i = f.i + 1,
                            !.pc = IF f.i + 1 < f.desired_length THEN "pass1" ELSE "scan" ]

Pass1Step ==
    /\ At("pass1") # {}
    /\ \E ks \in Keystreams(At("pass1")) :
         frame' = Stepped([ c \in At("pass1") |-> Pass1Body(frame[c], ks[c][1], ks[c][2]) ])
    /\ UNCHANGED main

\* ------------------------------------------------ step 5: Pass 2
\* categories_to_ensure: the enabled classes the Pass 1 string lacks.
CategoriesToEnsure(f) ==
    LET s == Join(f.transformed_password_chars)
    IN  (IF f.include_upper /\ ~(\E n \in 1..Len(s) : IsUpper(s[n])) /\ UPPERCASE_BASE # << >>
         THEN << "Upper" >> ELSE << >>)
        \o (IF f.include_lower /\ ~(\E n \in 1..Len(s) : IsLower(s[n])) /\ LOWERCASE_BASE # << >>
            THEN << "Lower" >> ELSE << >>)
        \o (IF f.include_numbers /\ ~(\E n \in 1..Len(s) : IsDigit(s[n])) /\ NUMBERS_BASE # << >>
            THEN << "Digit" >> ELSE << >>)
        \o (IF /\ f.include_symbols
               /\ ~(\E n \in 1..Len(s) : s[n] \in Range(f.symbols_to_use))
               /\ f.symbols_to_use # << >>
            THEN << "Symbol" >> ELSE << >>)

\* A scan after which Pass 2 starts again at the head of the keystream.
ScanBody_Restarts(f) ==
    [ f EXCEPT !.categories_to_ensure = CategoriesToEnsure(f),
               !.guarantee_hash_idx = 0,
               !.k = 0,
               !.pc = "pass2" ]

ScanBody(f) ==
    [ f EXCEPT !.categories_to_ensure = CategoriesToEnsure(f),
               !.guarantee_hash_idx = f.hash_read_idx,
               !.k = 0,
               !.pc = "pass2" ]

ScanMissing ==
    /\ At("scan") # {}
    /\ frame' = Stepped([ c \in At("scan") |-> ScanBody(frame[c]) ])
    /\ UNCHANGED main

\* The trace line a verbose call prints for an injection.
InjectTrace(vb, pos, ch) == IF vb THEN << << "inject", pos, ch >> >> ELSE << >>

\* An injection that inserts its character instead of overwriting a position.
InjectBody_Appends(f, d1, d2) ==
    LET char_set == CharSet(f.categories_to_ensure[f.k + 1], f.symbols_to_use)
    IN  [ f EXCEPT !.guarantee_hash_idx = f.guarantee_hash_idx + 2,
                   !.transformed_password_chars =
                       Append(@, char_set[(d2 % Len(char_set)) + 1]),
                   !.k = f.k + 1 ]

\* An injection whose tracing branch also moves the keystream cursor.
InjectBody_TraceAdvances(f, d1, d2) ==
    LET g == f.guarantee_hash_idx
        char_set == CharSet(f.categories_to_ensure[f.k + 1], f.symbols_to_use)
        injection_position == d1 % f.desired_length
        char_to_inject == char_set[(d2 % Len(char_set)) + 1]
    IN  [ f EXCEPT !.guarantee_hash_idx = IF f.verbose THEN g + 3 ELSE g + 2,
                   !.transformed_password_chars[injection_position + 1] = char_to_inject,
                   !.k = f.k + 1,
                   !.trace = @ \o InjectTrace(f.verbose, injection_position, char_to_inject) ]

\* One iteration of the Pass 2 loop with keystream digits d1, d2.
InjectBody(f, d1, d2) ==
    LET g == f.guarantee_hash_idx
        char_set == CharSet(f.categories_to_ensure[f.k + 1], f.symbols_to_use)
    IN  IF char_set = << >>
        THEN [ f EXCEPT !.k = f.k + 1 ]
        ELSE IF NeedsGrowth(g, f.extended_hash_len)
        THEN Raise(f, "AttributeError")
        ELSE IF NeedsGrowth(g + 1, f.extended_hash_len)
        THEN Raise([ f EXCEPT !.guarantee_hash_idx = g + 1,
                              !.reads = @ \o << ReadIndex(f, g) >> ], "AttributeError")
        ELSE LET injection_position == d1 % f.desired_length
                 char_to_inject == char_set[(d2 % Len(char_set)) + 1]
             IN  [ f EXCEPT !.guarantee_hash_idx = g + 2,
                            !.reads = @ \o << ReadIndex(f, g), ReadIndex(f, g + 1) >>,
                            !.transformed_password_chars[injection_position + 1] = char_to_inject,
                            !.k = f.k + 1,
                            !.trace = @ \o InjectTrace(f.verbose, injection_position,
                                                       char_to_inject) ]

\* The calls whose Pass 2 loop has an iteration left.
Injecting == { c \in At("pass2") : frame[c].k < Len(frame[c].categories_to_ensure) }

Inject ==
    /\ Injecting # {}
    /\ \E ks \in Keystreams(Injecting) :
         frame' = Stepped([ c \in Injecting |-> InjectBody(frame[c], ks[c][1], ks[c][2]) ])
    /\ UNCHANGED main

\* return "".join(transformed_password_chars)
ReturnBody(f) == [ f EXCEPT !.result = Join(f.transformed_password_chars), !.pc = "returned" ]

Returning == { c \in At("pass2") : frame[c].k = Len(frame[c].categories_to_ensure) }

Return ==
    /\ Returning # {}
    /\ frame' = Stepped([ c \in Returning |-> ReturnBody(frame[c]) ])
    /\ UNCHANGED main

Generate ==
    \/ Setup
    \/ Pass1Step
    \/ ScanMissing
    \/ Inject
    \/ Return

\* ------------------------------------------------ one call of the engine
\* The custom symbol sets a caller passes: none, the empty string, and a set
\* that shares a character with the Upper class.
CustomSymbolSets == { None, << >>, << "~", "A" >> }

\* The Secret Pair of the specification's example of a moved boundary.
ExamplePassword == << "a", "b", "c" >>

ExampleKey == << "d", "e", "f" >>

\* main has not been started.
MainIdle ==
    [ pc |-> "none",
      args |-> [ length |-> << >>, count |-> 0,
                 no_upper |-> FALSE, no_lower |-> FALSE,
                 no_numbers |-> FALSE, no_symbols |-> FALSE,
                 symbols_set |-> None, verbose |-> FALSE, copy |-> FALSE ],
      desired_length |-> << >>,
      simple_password |-> None, unique_key |-> None,
      i |-> -1, generated_password |-> None,
      attempted |-> << >>, errors |-> << >>, reports |-> << >>,
      exit_status |-> 0 ]

\* Call 1 is entered with a length in `lengths` and a verbose flag in
\* `verboses`, for every choice of classes and custom symbols.
EngineInit(lengths, verboses) ==
    /\ \E n \in lengths, up, lo, nu, sy \in BOOLEAN, cs \in CustomSymbolSets, vb \in verboses :
         frame = [ c \in Calls |->
                     IF c = 1
                     THEN NewFrame(ExamplePassword, ExampleKey, n, up, lo, nu, sy, cs, vb)
                     ELSE IdleFrame ]
    /\ main = MainIdle

Init == EngineInit(1..MaxLen, BOOLEAN)

Next == Generate

Spec == Init /\ [][Next]_vars

\* The same engine, tracing, on passwords one character longer.
InitLonger == EngineInit({MaxLen + 1}, {TRUE})

SpecLonger == InitLonger /\ [][Next]_vars

\* ------------------------------------------------ two calls of the engine
\* The specification's moved boundary: "abc"+"def" against "ab"+"cdef".
MovedPassword == << "a", "b" >>

MovedKey == << "c", "d", "e", "f" >>

SecretPairs == { << ExamplePassword, ExampleKey >>, << MovedPassword, MovedKey >> }

\* Two calls with one policy and secrets of one concatenation; call 2 may
\* move the boundary and may trace.
InitPair ==
    /\ \E n \in 1..MaxLen, up, lo, nu, sy \in BOOLEAN, cs \in CustomSymbolSets \ {<< >>},
          s2 \in SecretPairs, vb \in BOOLEAN :
         frame = [ c \in Calls |->
                     IF c = 1
                     THEN NewFrame(ExamplePassword, ExampleKey, n, up, lo, nu, sy, cs, FALSE)
                     ELSE NewFrame(s2[1], s2[2], n, up, lo, nu, sy, cs, vb) ]
    /\ main = MainIdle

SpecPair == InitPair /\ [][Next]_vars

\* ------------------------------------------------ properties of one call
Returned(c) == frame[c].pc = "returned"

Raised(c) == frame[c].pc = "raised"

\* The characters of the active alphabets of a frame.
ActiveUnion(f) ==
    UNION { Range(CharSet(f.active_char_sets[n], f.symbols_to_use)) :
              n \in 1..Len(f.active_char_sets) }

\* The classes the policy of a frame enables.
EnabledClasses(f) ==
    { cl \in Range(Classes) :
        \/ cl = "Upper" /\ f.include_upper
        \/ cl = "Lower" /\ f.include_lower
        \/ cl = "Digit" /\ f.include_numbers
        \/ cl = "Symbol" /\ f.include_symbols }

\* The classes a string has a character of.
ClassesPresent(str, symbols) ==
    { cl \in Range(Classes) : \E n \in 1..Len(str) : str[n] \in Range(CharSet(cl, symbols)) }

\* The injections a tracing call printed: << "inject", position, character >>.
Injections(f) == SelectSeq(f.trace, LAMBDA line : line[1] = "inject")

\* C1: a call with a valid policy returns a string of exactly desired_length
\* characters, and from Pass 1 on the buffer always has desired_length slots.
C1_LengthExact ==
    \A c \in Calls :
        LET f == frame[c]
        IN  /\ f.pc \in {"pass1", "scan", "pass2", "returned"}
                => Len(f.transformed_password_chars) = f.desired_length
            /\ (f.pc \in {"returned", "raised"} /\ f.active_char_sets # << >>)
                => f.pc = "returned" /\ Len(f.result) = f.desired_length

C1_Witness ==
    \E c \in Calls :
        /\ Returned(c)
        /\ frame[c].desired_length = MaxLen
        /\ frame[c].k = MaxLen
        /\ Len(frame[c].result) = MaxLen

\* C2: every character of a returned password is in an active alphabet and
\* in the alphabet of no excluded class.
C2_AlphabetContainment ==
    \A c \in Calls :
        Returned(c) =>
            \A n \in 1..Len(frame[c].result) :
                LET f == frame[c]
                    ch == f.result[n]
                IN  /\ ch \in ActiveUnion(f)
                    /\ \A cl \in Range(Classes) \ EnabledClasses(f) :
                           ch \notin Range(CharSet(cl, f.symbols_to_use))

\* C3: if desired_length >= the number of active classes and no two Pass 2
\* injections wrote the same position, the returned password has a character
\* of every active class.
C3_DiversityNoCollision ==
    \A c \in Calls :
        LET f == frame[c]
            inj == Injections(f)
        IN  (/\ Returned(c)
             /\ f.verbose
             /\ f.desired_length >= Len(f.active_char_sets)
             /\ \A a, b \in 1..Len(inj) : a # b => inj[a][2] # inj[b][2])
            => Range(f.active_char_sets) \subseteq ClassesPresent(f.result, f.symbols_to_use)

\* C4: a call fails with ValueError, for any length, when all four classes
\* are disabled, and when only Symbol is enabled and the custom symbol
\* override is the empty string.
C4_NoActiveAlphabet ==
    \A c \in Calls :
        LET f == frame[c]
        IN  (/\ f.pc \notin {"idle", "entry"}
             /\ \/ EnabledClasses(f) = {}
                \/ EnabledClasses(f) = {"Symbol"} /\ f.custom_symbols_set = << >>)
            => Raised(c) /\ f.error = "ValueError" /\ f.result = << >>

\* C10: with desired_length = 1 and all four classes enabled the call returns
\* one character of the union alphabet, every injection is at position 0,
\* exactly one class is present in the output and the output is the character
\* of the last injection.
C10_BoundaryLengthOne ==
    \A c \in Calls :
        LET f == frame[c]
            inj == Injections(f)
        IN  (/\ f.pc \in {"returned", "raised"}
             /\ f.desired_length = 1
             /\ EnabledClasses(f) = Range(Classes))
            => /\ Returned(c)
               /\ Len(f.result) = 1
               /\ f.result[1] \in ActiveUnion(f)
               /\ Cardinality(ClassesPresent(f.result, f.symbols_to_use)) = 1
               /\ f.verbose =>
                    /\ inj # << >>
                    /\ \A a \in 1..Len(inj) : inj[a][2] = 0
                    /\ f.result[1] = inj[Len(inj)][3]

\* ------------------------------------------------ properties of two calls
SamePolicy(f, g) ==
    /\ f.desired_length = g.desired_length
    /\ f.include_upper = g.include_upper
    /\ f.include_lower = g.include_lower
    /\ f.include_numbers = g.include_numbers
    /\ f.include_symbols = g.include_symbols
    /\ f.custom_symbols_set = g.custom_symbols_set

SameOutcome(f, g) == f.pc = g.pc /\ f.result = g.result /\ f.error = g.error

\* C5: two finished calls with the same secrets and policy have the same
\* outcome and password, whatever their verbose flags.
C5_Determinism ==
    \A c, o \in Calls :
        LET f == frame[c]
            g == frame[o]
        IN  (/\ Finished(f) /\ Finished(g)
             /\ f.simple_password = g.simple_password
             /\ f.unique_key = g.unique_key
             /\ SamePolicy(f, g))
            => SameOutcome(f, g)

C5_Witness ==
    /\ Returned(1) /\ Returned(2)
    /\ frame[1].simple_password = frame[2].simple_password
    /\ frame[1].unique_key = frame[2].unique_key
    /\ ~frame[1].verbose /\ frame[2].verbose
    /\ Len(Injections(frame[2])) = 2
    /\ frame[1].result = frame[2].result
    /\ Len(frame[1].result) = MaxLen

\* C6: two calls with the same policy whose secrets have the same
\* concatenation hash the same combined input and, once finished, have the
\* same outcome and password.
C6_ConcatenationOnly ==
    \A c, o \in Calls :
        LET f == frame[c]
            g == frame[o]
        IN  (/\ f.simple_password \o f.unique_key = g.simple_password \o g.unique_key
             /\ SamePolicy(f, g))
            => /\ (f.pc \in {"pass1", "scan", "pass2", "returned"}
                   /\ g.pc \in {"pass1", "scan", "pass2", "returned"})
                  => f.combined_input = g.combined_input
               /\ (Finished(f) /\ Finished(g)) => SameOutcome(f, g)

C6_Witness ==
    /\ Returned(1) /\ Returned(2)
    /\ frame[1].simple_password # frame[2].simple_password
    /\ frame[1].unique_key # frame[2].unique_key
    /\ frame[1].k > 0
    /\ frame[1].result = frame[2].result
    /\ Len(frame[1].result) = MaxLen

\* ------------------------------------------------ calls with a known digest
\* hashlib.sha256(b"abcdef").hexdigest(), digit by digit: the digest of the
\* combined input of ExamplePassword and ExampleKey.
ExampleDigest ==
    << 11, 14, 15,  5,  7, 14, 12,  7, 15,  5,  3, 10,  6, 13,  4,  0,
       11, 14, 11,  6,  4,  0, 10,  7,  8,  0, 10,  6,  3,  9, 12,  8,
        3, 11, 12,  2,  9, 10, 12,  8, 10,  9,  8,  1,  6, 15,  1, 15,
       12,  6, 12,  5, 12,  6, 13, 12, 13,  9,  3, 12,  4,  7,  2,  1 >>

\* Digests a combined input could have: the digest of the example, the
\* digests of one repeated digit (the least and the greatest), and digests
\* that run through all sixteen digits.
SampleDigests ==
    { ExampleDigest }
    \cup { [ x \in 1..HashLen |-> v ] : v \in { 0, 15 } }
    \cup { [ x \in 1..HashLen |-> (((x - 1) \div 4) + a * (x - 1)) % 16 ] : a \in { 1, 3, 7 } }

\* One tracing call of every length up to LongLen, under any policy, with the
\* default symbols, whose digest is one of the sample digests.
InitDigest ==
    /\ main = MainIdle
    /\ \E n \in 1..LongLen, up, lo, nu, sy \in BOOLEAN, d \in SampleDigests :
         frame = [ c \in Calls |->
                     IF c = 1
                     THEN [ NewFrame(ExamplePassword, ExampleKey, n, up, lo, nu, sy, None, TRUE)
                              EXCEPT !.base_hash = d ]
                     ELSE IdleFrame ]

SpecDigest == InitDigest /\ [][Next]_vars

\* C11: both passes consume one cursor that is never reset: the indices read
\* are 0, 1, 2, ... in order, two per Pass 1 position (2i and 2i+1 for
\* position i) and two per injection (2*length + 2k and 2*length + 2k + 1 for
\* injection k), 2*length + 2*(number of missing classes) in all.
C11_SharedCursor ==
    \A c \in Calls :
        LET f == frame[c]
            L == f.desired_length
        IN  f.pc \in { "pass1", "scan", "pass2", "returned" } =>
              /\ f.reads = [ n \in 1..Len(f.reads) |-> n - 1 ]
              /\ f.pc = "pass1" => Len(f.reads) = 2 * f.i /\ f.hash_read_idx = 2 * f.i
              /\ f.pc = "scan" => Len(f.reads) = 2 * L /\ f.hash_read_idx = 2 * L
              /\ f.pc = "pass2" =>
                    /\ f.hash_read_idx = 2 * L
                    /\ Len(f.reads) = 2 * L + 2 * f.k
                    /\ f.guarantee_hash_idx = 2 * L + 2 * f.k
              /\ f.pc = "returned" =>
                    Len(f.reads) = 2 * L + 2 * Len(f.categories_to_ensure)

C11_Witness ==
    /\ Returned(1)
    /\ frame[1].desired_length = LongLen
    /\ Len(frame[1].categories_to_ensure) >= 2
    /\ frame[1].reads[Len(frame[1].reads)] = 2 * LongLen + 2 * Len(frame[1].categories_to_ensure) - 1

\* C12: a call with at least one active alphabet starts with a keystream of
\* exactly 2*length + 2*(number of active alphabets) + 10 characters, every
\* read is at an index with index + 1 < len(keystream), and the growth branch
\* (which would raise AttributeError) is never taken.
C12_NoGrowth ==
    \A c \in Calls :
        LET f == frame[c]
            len == f.extended_hash_len
        IN  (f.pc \in { "pass1", "scan", "pass2", "returned", "raised" }
               /\ f.active_char_sets # << >>) =>
              /\ len = 2 * f.desired_length + 2 * Len(f.active_char_sets) + 10
              /\ \A n \in 1..Len(f.reads) : f.reads[n] + 1 < len
              /\ f.pc = "pass1" =>
                    ~NeedsGrowth(f.hash_read_idx, len) /\ ~NeedsGrowth(f.hash_read_idx + 1, len)
              /\ (f.pc = "pass2" /\ f.k < Len(f.categories_to_ensure)) =>
                    /\ ~NeedsGrowth(f.guarantee_hash_idx, len)
                    /\ ~NeedsGrowth(f.guarantee_hash_idx + 1, len)
              /\ f.pc # "raised"
              /\ f.error # "AttributeError"

C12_Witness ==
    /\ Returned(1)
    /\ frame[1].desired_length = LongLen
    /\ Len(frame[1].active_char_sets) = 4
    /\ frame[1].extended_hash_len = 2 * LongLen + 18
    /\ Len(frame[1].reads) = 2 * LongLen + 6

\* The characters of an alphabet a value 0..15 taken modulo its length selects.
Selectable(set) == { set[n] : n \in 1..Min(16, Len(set)) }

\* The characters of an alphabet no such value selects.
Unselectable(set) == { set[n] : n \in 17..Len(set) }

\* C13: every character written, in Pass 1 or by an injection, is one of the
\* first sixteen characters of an active alphabet; with the default alphabets
\* no output contains Q-Z, q-z or one of the default symbols 16..26.
C13_FirstSixteenOnly ==
    \A c \in Calls :
        LET f == frame[c]
            written == Range(f.transformed_password_chars) \ { "" }
        IN  /\ written \subseteq
                  UNION { Selectable(CharSet(f.active_char_sets[n], f.symbols_to_use)) :
                            n \in 1..Len(f.active_char_sets) }
            /\ (f.pc = "returned" /\ f.symbols_to_use = SYMBOLS_DEFAULT) =>
                  Range(f.result) \cap (Unselectable(UPPERCASE_BASE)
                                         \cup Unselectable(LOWERCASE_BASE)
                                         \cup Unselectable(SYMBOLS_DEFAULT)) = { }

C13_Witness ==
    /\ Returned(1)
    /\ frame[1].desired_length = LongLen
    /\ frame[1].categories_to_ensure # << >>
    /\ LOWERCASE_BASE[16] \in Range(frame[1].result)
    /\ SYMBOLS_DEFAULT[16] \in Range(frame[1].result)

\* C14: the buffer Pass 1 fills has period 32 (position i + 32 holds the
\* character of position i), and in the returned password positions i and
\* i + 32 differ only if an injection overwrote one of them.
C14_PeriodThirtyTwo ==
    \A c \in Calls :
        LET f == frame[c]
            buf == f.transformed_password_chars
            inj == Injections(f)
        IN  /\ (f.pc \in { "pass1", "scan" } \/ (f.pc = "pass2" /\ f.k = 0)) =>
                  \A i \in 1..(Len(buf) - 32) : buf[i + 32] # "" => buf[i] = buf[i + 32]
            /\ f.pc = "returned" =>
                  \A i \in 1..(Len(f.result) - 32) :
                      f.result[i] # f.result[i + 32] =>
                          \E n \in 1..Len(inj) : inj[n][2] \in { i - 1, i + 31 }

C14_Witness ==
    /\ Returned(1)
    /\ frame[1].desired_length = LongLen
    /\ frame[1].result[1] # frame[1].result[33]
    /\ frame[1].result[2] = frame[1].result[34]
    /\ frame[1].result[1] # frame[1].result[2]

\* ------------------------------------------------ main
\* An optional integer (args.length, desired_length) is << >> for None and
\* << n >> for n.  main.i is -1 before the batch loop.  main.attempted lists
\* the items for which generate_monkey_password was called, main.errors the
\* exceptions the loop's except clauses caught, main.reports the items whose
\* error report was printed.
\*
\* A console.print may fail with an I/O error (an Exception): `ok` is FALSE.
\* An exception no handler catches ends the process with status 1.
Exit(m, status) == [ m EXCEPT !.pc = "exited", !.exit_status = status ]

Uncaught(m) == Exit(m, 1)

\* The secrets getpass can return: the empty string and a non-empty one.
Secrets == { << >>, << "a" >> }

\* The lengths given on the command line or typed at the prompt.
LengthInputs == (0 - 1)..MainMaxLen

\* parser.parse_args(): the namespaces main can start from.
ArgSpace ==
    [ length : { << >> } \cup { << n >> : n \in LengthInputs },
      count : 0..MaxCount,
      no_upper : BOOLEAN, no_lower : BOOLEAN,
      no_numbers : BOOLEAN, no_symbols : BOOLEAN,
      symbols_set : { None }, verbose : { FALSE }, copy : BOOLEAN ]

\* Welcome panel; desired_length = args.length.
Start ==
    /\ main.pc = "start"
    /\ \E ok \in BOOLEAN :
         main' = IF ~ok THEN Uncaught(main)
                 ELSE [ main EXCEPT !.desired_length = main.args.length,
                                    !.pc = IF main.args.length = << >>
                                           THEN "prompt" ELSE "check_length" ]
    /\ UNCHANGED frame

\* One iteration of the length prompt: the text typed is a number n, is no
\* number ("text", int() raises ValueError), or Prompt.ask raises ("eof").
PromptBody(m, typed, n, ok) ==
    IF typed = "eof"
    THEN Exit(m, 1)
    ELSE IF typed = "text"
    THEN IF ok THEN m ELSE Uncaught(m)
    ELSE LET read == [ m EXCEPT !.desired_length = << n >> ]
         IN  IF n <= 0
             THEN IF ok THEN read ELSE Exit(read, 1)
             ELSE IF n < 4 /\ ~(/\ m.args.no_upper /\ m.args.no_lower
                                /\ m.args.no_numbers /\ m.args.no_symbols)
             THEN IF ok THEN [ read EXCEPT !.pc = "check_length" ] ELSE Exit(read, 1)
             ELSE [ read EXCEPT !.pc = "check_length" ]

PromptLength ==
    /\ main.pc = "prompt"
    /\ \E typed \in { "number", "text", "eof" }, n \in LengthInputs, ok \in BOOLEAN :
         main' = PromptBody(main, typed, n, ok)
    /\ UNCHANGED frame

\* if desired_length <= 0
LengthRejected(n) == n <= 0

\* Final validation of desired_length, then the Secure Input panel.
CheckLength ==
    /\ main.pc = "check_length"
    /\ \E ok \in BOOLEAN :
         main' = IF LengthRejected(main.desired_length[1]) THEN Exit(main, 1)
                 ELSE IF ~ok THEN Uncaught(main)
                 ELSE [ main EXCEPT !.pc = "getpass" ]
    /\ UNCHANGED frame

\* The two getpass.getpass calls; either may raise.
GetSecrets ==
    /\ main.pc = "getpass"
    /\ \/ main' = Exit(main, 1)
       \/ \E p, k \in Secrets :
            main' = [ main EXCEPT !.simple_password = p, !.unique_key = k,
                                  !.pc = "check_secrets" ]
    /\ UNCHANGED frame

\* A validation that rejects only when both secrets are empty.
SecretsMissing_Both(p, k) == p = << >> /\ k = << >>

\* if not simple_password or not unique_key
SecretsMissing(p, k) == p = << >> \/ k = << >>

\* Validation of the secrets, then the Generation Options summary.
CheckSecrets ==
    /\ main.pc = "check_secrets"
    /\ \E ok \in BOOLEAN :
         main' = IF SecretsMissing(main.simple_password, main.unique_key) THEN Exit(main, 1)
                 ELSE IF ~ok THEN Uncaught(main)
                 ELSE [ main EXCEPT !.pc = "loop", !.i = 0 ]
    /\ UNCHANGED frame

\* for i in range(args.count): the item header is printed outside the try.
LoopHead ==
    /\ main.pc = "loop"
    /\ \E ok \in BOOLEAN :
         main' = IF main.i >= main.args.count THEN [ main EXCEPT !.pc = "final" ]
                 ELSE IF main.args.count > 1 /\ ~ok THEN Uncaught(main)
                 ELSE [ main EXCEPT !.pc = "call" ]
    /\ UNCHANGED frame

\* generated_password = generate_monkey_password(...)
CallGenerate ==
    /\ main.pc = "call"
    /\ frame' = [ frame EXCEPT ![1] =
                    NewFrame(main.simple_password, main.unique_key, main.desired_length[1],
                             ~main.args.no_upper, ~main.args.no_lower,
                             ~main.args.no_numbers, ~main.args.no_symbols,
                             main.args.symbols_set, main.args.verbose) ]
    /\ main' = [ main EXCEPT !.pc = "in_call", !.attempted = Append(@, main.i) ]

\* The call returns its password, or raises into the matching except clause.
\* The frame of a finished call is discarded.
AfterCall ==
    /\ main.pc = "in_call"
    /\ Finished(frame[1])
    /\ main' = IF frame[1].pc = "returned"
               THEN [ main EXCEPT !.generated_password = frame[1].result, !.pc = "display" ]
               ELSE [ main EXCEPT !.errors = Append(@, << main.i, frame[1].error >>),
                                  !.pc = IF frame[1].error = "ValueError"
                                         THEN "except_ValueError" ELSE "except_Exception" ]
    /\ frame' = [ frame EXCEPT ![1] = IdleFrame ]

\* The Generated Password panel and the strength lines, inside the try.
Display ==
    /\ main.pc = "display"
    /\ \E ok \in BOOLEAN :
         main' = IF ok THEN [ main EXCEPT !.pc = "clipboard" ]
                 ELSE [ main EXCEPT !.errors = Append(@, << main.i, "OSError" >>),
                                    !.pc = "except_Exception" ]
    /\ UNCHANGED frame

\* The step to the next item; generated_password is not read again before it
\* is assigned, so it is cleared.
NextItem(m) == [ m EXCEPT !.i = m.i + 1, !.generated_password = None, !.pc = "loop" ]

\* The clipboard step, inside the try: copy_to_clipboard returns True or
\* False (it catches the failures of the clipboard utility), then a line is
\* printed.
Clipboard ==
    /\ main.pc = "clipboard"
    /\ \E copied \in BOOLEAN, ok \in BOOLEAN :
         main' = IF ~ok
                 THEN [ main EXCEPT !.errors = Append(@, << main.i, "OSError" >>),
                                    !.pc = "except_Exception" ]
                 ELSE IF main.args.copy /\ ~copied
                 THEN NextItem([ main EXCEPT !.reports = Append(@, main.i) ])
                 ELSE NextItem(main)
    /\ UNCHANGED frame

\* except ValueError / except Exception: print the report, then continue.
HandleError ==
    /\ main.pc \in { "except_ValueError", "except_Exception" }
    /\ \E ok \in BOOLEAN :
         main' = IF ok THEN NextItem([ main EXCEPT !.reports = Append(@, main.i) ])
                 ELSE Uncaught(main)
    /\ UNCHANGED frame

\* The final security note; main returns and the process ends with status 0.
Final ==
    /\ main.pc = "final"
    /\ \E ok \in BOOLEAN :
         main' = IF ok THEN Exit(main, 0) ELSE Uncaught(main)
    /\ UNCHANGED frame

Main ==
    \/ Start
    \/ PromptLength
    \/ CheckLength
    \/ GetSecrets
    \/ CheckSecrets
    \/ LoopHead
    \/ CallGenerate
    \/ AfterCall
    \/ Display
    \/ Clipboard
    \/ HandleError
    \/ Final

InitMain ==
    /\ frame = [ c \in Calls |-> IdleFrame ]
    /\ \E a \in ArgSpace : main = [ MainIdle EXCEPT !.pc = "start", !.args = a ]

NextMain == Main \/ Generate

\* The digest digits of one call are not carried to the next call of a batch:
\* the passwords of a batch are unconstrained here.
SpecMain == InitMain /\ [][NextMain]_vars

\* ------------------------------------------------ properties of main
Exited == main.pc = "exited"

\* C7: when the engine raised ValueError during the run, the process ends
\* with a non-zero exit status.
C7_ErrorExitsNonZero ==
    (Exited /\ \E n \in 1..Len(main.errors) : main.errors[n][2] = "ValueError")
        => main.exit_status # 0

\* C8: generate_monkey_password is called only with desired_length >= 1 and
\* two non-empty secrets; a process that ends with a non-positive length or
\* an empty secret ends with status 1 and has attempted no derivation.
C8_CallsGuarded ==
    /\ \A c \in Calls :
         frame[c].pc # "idle" =>
            /\ frame[c].desired_length >= 1
            /\ frame[c].simple_password # << >>
            /\ frame[c].unique_key # << >>
    /\ main.attempted # << >> =>
         /\ main.desired_length # << >> /\ main.desired_length[1] >= 1
         /\ main.simple_password \notin { None, << >> }
         /\ main.unique_key \notin { None, << >> }
    /\ (/\ Exited
        /\ \/ main.desired_length # << >> /\ main.desired_length[1] <= 0
           \/ main.simple_password = << >>
           \/ main.unique_key = << >>)
       => main.exit_status = 1 /\ main.attempted = << >>

C8_Witness ==
    /\ main.args.length = << >>
    /\ main.pc = "in_call"
    /\ frame[1].pc = "pass1"
    /\ frame[1].desired_length = main.desired_length[1]
    /\ frame[1].simple_password = main.simple_password

\* C9: once the batch loop has started, the process ends only after every
\* item 0..count-1 was attempted, in order, and every item that failed was
\* reported.
C9_BatchNeverAborts ==
    (Exited /\ main.i >= 0)
        => /\ main.attempted = [ n \in 1..main.args.count |-> n - 1 ]
           /\ \A n \in 1..Len(main.errors) :
                \E r \in 1..Len(main.reports) : main.reports[r] = main.errors[n][1]

====
